---- MODULE Spec2Model ----
(***************************************************************************)
(* A model of bugwarrior's GitHub service (bugwarrior/services/github.py): *)
(* the paginating client (GithubClient._getter and the Link header         *)
(* parser), the configuration validation and construction of               *)
(* GithubService, the repository resolver and repository filters, and the  *)
(* aggregation pipeline GithubService.issues().                            *)
(*                                                                         *)
(* Python strings are sequences of tokens.  A token is a TLA+ string that  *)
(* stands for one character ("/", ";", " ", ...) or for a run of           *)
(* characters containing none of the separators the code splits on         *)
(* ("https:", "alice", "proj").  Dictionary keys that are literals of the  *)
(* code ('url', 'repo', 'items', ...) are TLA+ record fields.              *)
(***************************************************************************)
EXTENDS Integers, Sequences, FiniteSets, TLC

VARIABLES
    \* ---- GithubClient._getter (one paginated fetch) ----
    server,      \* the pages the remote API serves for this fetch, in order
    subkey,      \* _getter's subkey argument
    link,        \* _getter's local `link`
    results,     \* _getter's local `results`
    response,    \* the response of the request in flight
    requests,    \* history: the URLs requested so far, in order
    parsed,      \* history: how many Link headers have been parsed
    gpc,         \* position inside _getter
    gout,        \* what the call produced: nothing yet, a value, an exception
    \* ---- GithubService configuration ----
    config,      \* which github.* options the configuration file supplies
    cpc,         \* position in validate_config / __init__
    auth,        \* the auth dict built by __init__
    baseurl,     \* GithubClient._api_url's base for the configured host
    query,       \* self.query
    \* ---- pure functions applied to drawn inputs ----
    pin,         \* the drawn input
    pout,        \* the result of applying the function to it
    \* ---- GithubService.issues() ----
    svc,         \* the service's fields read by issues()
    remote,      \* the remote API: "github", or "any" server speaking its protocol
    fetched,     \* history: what the last client call returned
    issues,      \* the local dict `issues` (insertion ordered)
    repos,       \* the filtered repositories still to be fetched
    records,     \* the records yielded so far, in order
    base_rejects,\* the issue numbers the base class's include() turned down
    ipc,         \* position inside issues()
    error        \* the exception that ended issues(), if any

getterVars == <<server, subkey, link, results, response, requests, parsed, gpc, gout>>
configVars == <<config, cpc, auth, baseurl, query>>
pureVars == <<pin, pout>>
issuesVars == <<svc, remote, fetched, issues, repos, records, base_rejects, ipc, error>>
vars == <<getterVars, configVars, pureVars, issuesVars>>

\* What the actions of one part leave alone: the other parts.
getterFrame == <<configVars, pureVars, issuesVars>>
configFrame == <<getterVars, pureVars, issuesVars>>
pureFrame == <<getterVars, configVars, issuesVars>>
issuesFrame == <<getterVars, configVars, pureVars>>

(***************************************************************************)
(* Bounds of the model.                                                    *)
(***************************************************************************)
MaxPages == 3
MaxFetch == 2
MaxList == 2

(***************************************************************************)
(* Python values.                                                          *)
(***************************************************************************)
\* Python's None where a string is expected (a sequence, so that it can be
\* compared with every string of the model).
None == <<"<None>">>

\* None where a dictionary key literal is expected.
NoSubkey == "<None>"

Min(S) == CHOOSE x \in S : \A y \in S : x <= y

\* str.split(sep): cut at every (leftmost, non-overlapping) occurrence of sep.
\* SplitScan reads s from position i on; the segment being read starts at
\* position start.
RECURSIVE SplitScan(_, _, _, _)
SplitScan(s, sep, i, start) ==
    IF i + Len(sep) - 1 > Len(s) THEN <<SubSeq(s, start, Len(s))>>
    ELSE IF SubSeq(s, i, i + Len(sep) - 1) = sep
         THEN <<SubSeq(s, start, i - 1)>>
              \o SplitScan(s, sep, i + Len(sep), i + Len(sep))
         ELSE SplitScan(s, sep, i + 1, start)

Split(s, sep) == SplitScan(s, sep, 1, 1)

\* s[from:-dropEnd] with from >= 0 and dropEnd > 0.
Slice(s, from, dropEnd) == SubSeq(s, from + 1, Len(s) - dropEnd)

\* "a" + "/" + "b"
Slash == <<"/">>

\* dict(pairs): the last pair for a key wins.
DictOfPairs(pairs) ==
    [k \in {pairs[i][1] : i \in 1..Len(pairs)} |->
        LET last == CHOOSE i \in 1..Len(pairs) :
                        /\ pairs[i][1] = k
                        /\ \A j \in (i + 1)..Len(pairs) : pairs[j][1] # k
        IN  pairs[last][2]]

EmptyDict == DictOfPairs(<<>>)

(***************************************************************************)
(* GithubClient._link_field_to_dict                                        *)
(***************************************************************************)
\* mutant: the relation name and the URL are swapped
link_field_to_dict_swapped(field) ==
    IF field = None \/ field = <<>> THEN EmptyDict
    ELSE LET parts == Split(field, <<",", " ">>)
         IN  DictOfPairs([i \in 1..Len(parts) |->
                 <<Slice(Split(parts[i], <<";", " ">>)[1], 1, 1),
                   Slice(Split(parts[i], <<";", " ">>)[2], 5, 1)>>])

link_field_to_dict(field) ==
    IF field = None \/ field = <<>> THEN EmptyDict
    ELSE LET parts == Split(field, <<",", " ">>)
         IN  DictOfPairs([i \in 1..Len(parts) |->
                 <<Slice(Split(parts[i], <<";", " ">>)[2], 5, 1),
                   Slice(Split(parts[i], <<";", " ">>)[1], 1, 1)>>])

(***************************************************************************)
(* The remote API of one paginated fetch: page k is served at PageUrl(k).  *)
(***************************************************************************)
PageTok == <<"1", "2", "3", "4", "5">>
PageUrl(k) == <<"https:", "/", "/", "api", "/", "issues", "?", "page=", PageTok[k]>>

\* One `<url>; rel="name"` segment of a Link header.
LinkSegment(url, rel) ==
    <<"<">> \o url \o <<">", ";", " ", "r", "e", "l", "=", "\"", rel, "\"">>

RECURSIVE JoinSegments(_)
JoinSegments(segs) ==
    IF Len(segs) = 1 THEN segs[1]
    ELSE segs[1] \o <<",", " ">> \o JoinSegments(Tail(segs))

\* The Link headers a page that has a successor may carry.
NextHeaders(k, n) ==
    { JoinSegments(<<LinkSegment(PageUrl(k + 1), "next")>>),
      JoinSegments(<<LinkSegment(PageUrl(IF k > 1 THEN k - 1 ELSE 1), "prev"),
                     LinkSegment(PageUrl(k + 1), "next"),
                     LinkSegment(PageUrl(n), "last")>>) }

\* The Link headers of the last page: absent, empty, or without "next".
LastHeaders(n) ==
    { None, <<>>,
      JoinSegments(<<LinkSegment(PageUrl(IF n > 1 THEN n - 1 ELSE 1), "prev"),
                     LinkSegment(PageUrl(1), "first")>>) }

\* The items page k may carry (its own, so that order shows).
PageItems(k) == { <<>>, <<<<k, "a">>>>, <<<<k, "a">>, <<k, "b">>>> }

\* How a page's request may go: served, refused, or served with a body that
\* is not JSON.
PageFaults == {"ok", "status", "undecodable"}

\* The pages k..n of a server of n pages, all served without fault.
RECURSIVE PagesFrom(_, _)
PagesFrom(k, n) ==
    IF k > n THEN {<<>>}
    ELSE { <<[items |-> it, header |-> h, fault |-> "ok"]>> \o rest :
              it \in PageItems(k),
              h \in (IF k < n THEN NextHeaders(k, n) ELSE LastHeaders(n)),
              rest \in PagesFrom(k + 1, n) }

\* The servers of the model: up to MaxPages pages, at most one of them faulty
\* (the fetch ends at the first).
Servers ==
    UNION { { [k \in 1..n |-> IF k = f[1] THEN [s[k] EXCEPT !.fault = f[2]] ELSE s[k]] :
                 s \in PagesFrom(1, n),
                 f \in {<<0, "ok">>} \cup ((1..n) \X (PageFaults \ {"ok"})) }
            : n \in 1..MaxPages }

\* session.get(url): the response the server gives for url.
Get(url) ==
    LET k == CHOOSE k \in 1..Len(server) : PageUrl(k) = url
        page == server[k]
    IN  [status |-> IF page.fault = "status" THEN 500 ELSE 200,
         decodable |-> page.fault # "undecodable",
         json |-> IF subkey = NoSubkey THEN [list |-> page.items]
                  ELSE [items |-> page.items],
         headers |-> IF page.header = None THEN [x \in {} |-> None]
                     ELSE [x \in {"link"} |-> page.header]]

NoResponse == [status |-> 0, decodable |-> FALSE, json |-> [list |-> <<>>],
               headers |-> [x \in {} |-> None]]

\* headers.get(name, default)
HeadersGet(headers, name, default) ==
    IF name \in DOMAIN headers THEN headers[name] ELSE default

\* ServiceClient.json_response: the decoded body, or an error for a
\* non-success status or an undecodable body.
json_response(resp) ==
    IF resp.status # 200 \/ ~resp.decodable
    THEN [raised |-> TRUE, json |-> [list |-> <<>>]]
    ELSE [raised |-> FALSE, json |-> resp.json]

(***************************************************************************)
(* GithubClient._getter                                                    *)
(***************************************************************************)
GetterInit ==
    /\ server \in Servers
    /\ subkey \in {NoSubkey, "items"}
    /\ link = DictOfPairs(<<<< <<"next">>, PageUrl(1) >>>>)
    /\ results = <<>>
    /\ response = NoResponse
    /\ requests = <<>>
    /\ parsed = 0
    /\ gpc = "loop"
    /\ gout = [kind |-> "running", value |-> <<>>]

GetterIdle ==
    /\ server = <<>>
    /\ subkey = NoSubkey
    /\ link = EmptyDict
    /\ results = <<>>
    /\ response = NoResponse
    /\ requests = <<>>
    /\ parsed = 0
    /\ gpc = "idle"
    /\ gout = [kind |-> "running", value |-> <<>>]

\* while 'next' in link: response = self.session.get(link['next'], **kwargs)
GetterRequest ==
    /\ gpc = "loop"
    /\ <<"next">> \in DOMAIN link
    /\ response' = Get(link[<<"next">>])
    /\ requests' = Append(requests, link[<<"next">>])
    /\ gpc' = "json"
    /\ UNCHANGED <<server, subkey, link, results, parsed, gout>>
    /\ UNCHANGED getterFrame

\* json_res = self.json_response(response); descend into subkey; results += json_res
GetterDecode ==
    /\ gpc = "json"
    /\ ~json_response(response).raised
    /\ LET json_res == json_response(response).json
           page == IF subkey # NoSubkey THEN json_res[subkey] ELSE json_res.list
       IN  results' = results \o page
    /\ gpc' = "link"
    /\ UNCHANGED <<server, subkey, link, response, requests, parsed, gout>>
    /\ UNCHANGED getterFrame

\* mutant: a failed page ends the loop and the pages fetched so far are returned
GetterRaise_partial ==
    /\ gpc = "json"
    /\ json_response(response).raised
    /\ gpc' = "done"
    /\ gout' = [kind |-> "value", value |-> results]
    /\ UNCHANGED <<server, subkey, link, results, response, requests, parsed>>
    /\ UNCHANGED getterFrame

\* json_response raises: nothing in _getter catches it, the call ends there
GetterRaise ==
    /\ gpc = "json"
    /\ json_response(response).raised
    /\ gpc' = "raised"
    /\ gout' = [kind |-> "exception", value |-> <<>>]
    /\ UNCHANGED <<server, subkey, link, results, response, requests, parsed>>
    /\ UNCHANGED getterFrame

\* link = self._link_field_to_dict(response.headers.get('link', None))
GetterParseLink ==
    /\ gpc = "link"
    /\ link' = link_field_to_dict(HeadersGet(response.headers, "link", None))
    /\ parsed' = parsed + 1
    /\ gpc' = "loop"
    /\ UNCHANGED <<server, subkey, results, response, requests, gout>>
    /\ UNCHANGED getterFrame

\* the loop condition fails: return results
GetterReturn ==
    /\ gpc = "loop"
    /\ <<"next">> \notin DOMAIN link
    /\ gpc' = "done"
    /\ gout' = [kind |-> "value", value |-> results]
    /\ UNCHANGED <<server, subkey, link, results, response, requests, parsed>>
    /\ UNCHANGED getterFrame

GetterNext ==
    \/ GetterRequest
    \/ GetterDecode
    \/ GetterRaise
    \/ GetterParseLink
    \/ GetterReturn

(***************************************************************************)
(* GithubService.validate_config and GithubService.__init__                *)
(***************************************************************************)
Hosts == {None, <<"github.com">>, <<"ghe.example.com">>}

\* What the configuration section supplies: has_option() for the credential
\* and identity options, and the values of the options __init__ reads.
Configs ==
    [login : BOOLEAN, token : BOOLEAN, password : BOOLEAN, username : BOOLEAN,
     host : Hosts, involved_issues : BOOLEAN, query : {None, <<"is:open">>}]

\* The checks of validate_config before the base class's: TRUE when one of
\* them calls die().
\* mutant: token and password together are refused as well
validate_dies_exactly_one(c) ==
    \/ ~c.login
    \/ (~c.token /\ ~c.password)
    \/ (c.token /\ c.password)
    \/ ~c.username

validate_dies(c) ==
    \/ ~c.login
    \/ (~c.token /\ ~c.password)
    \/ ~c.username

ConfigInit ==
    /\ config \in Configs
    /\ cpc = "validate"
    /\ auth = [x \in {} |-> None]
    /\ baseurl = None
    /\ query = None

ConfigIdle ==
    /\ config = [login |-> FALSE, token |-> FALSE, password |-> FALSE,
                 username |-> FALSE, host |-> None, involved_issues |-> FALSE,
                 query |-> None]
    /\ cpc = "idle"
    /\ auth = [x \in {} |-> None]
    /\ baseurl = None
    /\ query = None

\* validate_config: one of the three checks calls die(), which ends the run
ValidateDie ==
    /\ cpc = "validate"
    /\ validate_dies(config)
    /\ cpc' = "died"
    /\ UNCHANGED <<config, auth, baseurl, query>>
    /\ UNCHANGED configFrame

\* validate_config: the three checks pass and the base class's validation,
\* which is outside this file, accepts or refuses the section
ValidatePass ==
    /\ cpc = "validate"
    /\ ~validate_dies(config)
    /\ \E baseAccepts \in BOOLEAN :
          cpc' = IF baseAccepts THEN "valid" ELSE "base_died"
    /\ UNCHANGED <<config, auth, baseurl, query>>
    /\ UNCHANGED configFrame

\* __init__: the auth dict
make_auth(c) ==
    IF c.token
    THEN [x \in {"token"} |-> <<"token">>]
    ELSE [x \in {"basic"} |-> <<"login", ":", "password">>]

\* GithubClient._api_url's baseurl
api_baseurl(host) ==
    IF host = <<"github.com">>
    THEN <<"https:", "/", "/", "api.github.com">>
    ELSE <<"https:", "/", "/">> \o host \o <<"/", "api", "/", "v3">>

\* self.query
default_query(c) ==
    IF c.query # None THEN c.query
    ELSE IF c.involved_issues
         THEN <<"involves:", " ", "username", " ", "state:open">>
         ELSE <<>>

\* GithubService.__init__ on a validated configuration
ServiceInit ==
    /\ cpc = "valid"
    /\ auth' = make_auth(config)
    /\ baseurl' = api_baseurl(IF config.host = None THEN <<"github.com">>
                              ELSE config.host)
    /\ query' = default_query(config)
    /\ cpc' = "constructed"
    /\ UNCHANGED config
    /\ UNCHANGED configFrame

ConfigNext ==
    \/ ValidateDie
    \/ ValidatePass
    \/ ServiceInit

(***************************************************************************)
(* GithubService.filter_repo_name, filter_repos                            *)
(***************************************************************************)
\* x in list
In(x, list) == \E i \in 1..Len(list) : list[i] = x

\* mutant: the include list is consulted before the exclude list
filter_repo_name_include_first(self, name) ==
    IF Len(self.include_repos) > 0 /\ In(name, self.include_repos) THEN TRUE
    ELSE IF Len(self.exclude_repos) > 0 /\ In(name, self.exclude_repos) THEN FALSE
    ELSE IF Len(self.include_repos) > 0 THEN FALSE
    ELSE TRUE

filter_repo_name(self, name) ==
    IF Len(self.exclude_repos) > 0 /\ In(name, self.exclude_repos) THEN FALSE
    ELSE IF Len(self.include_repos) > 0
         THEN (IF In(name, self.include_repos) THEN TRUE ELSE FALSE)
         ELSE TRUE

\* mutant: only the owner is checked
filter_repos_owner_only(self, repo) ==
    IF repo.owner.login # self.username THEN FALSE
    ELSE TRUE

filter_repos(self, repo) ==
    IF repo.owner.login # self.username THEN FALSE
    ELSE filter_repo_name(self, repo.name)

(***************************************************************************)
(* GithubService.get_repository_from_issue                                 *)
(***************************************************************************)
Raise(exc) == [raised |-> TRUE, exc |-> exc, value |-> None]
Return(v) == [raised |-> FALSE, exc |-> "", value |-> v]

\* re.match('.*/([^/]*/[^/]*)$', url): the group is what follows the
\* last-but-one '/', and there is no match without two of them.
match_tag(url) ==
    LET slashes == {i \in 1..Len(url) : url[i] = "/"}
    IN  IF Cardinality(slashes) < 2 THEN None
        ELSE LET last == CHOOSE i \in slashes : \A j \in slashes : j <= i
                 prev == CHOOSE i \in slashes \ {last} :
                             \A j \in slashes \ {last} : j <= i
             IN  SubSeq(url, prev + 1, Len(url))

\* mutant: repository_url is preferred to repos_url
get_repository_from_issue_swapped(issue) ==
    IF "repo" \in DOMAIN issue THEN Return(issue.repo)
    ELSE IF "repository_url" \notin DOMAIN issue /\ "repos_url" \notin DOMAIN issue
         THEN Raise("ValueError")
         ELSE LET url == IF "repository_url" \in DOMAIN issue
                         THEN issue.repository_url ELSE issue.repos_url
                  tag == match_tag(url)
              IN  IF tag = None THEN Raise("ValueError") ELSE Return(tag)

get_repository_from_issue(issue) ==
    IF "repo" \in DOMAIN issue THEN Return(issue.repo)
    ELSE IF "repos_url" \notin DOMAIN issue /\ "repository_url" \notin DOMAIN issue
         THEN Raise("ValueError")
         ELSE LET url == IF "repos_url" \in DOMAIN issue
                         THEN issue.repos_url ELSE issue.repository_url
                  tag == match_tag(url)
              IN  IF tag = None THEN Raise("ValueError") ELSE Return(tag)

(***************************************************************************)
(* The payloads the remote API may return.                                 *)
(***************************************************************************)
Https == <<"https:", "/", "/">>

\* https://api.github.com/repos/<owner>/<name>
ApiRepoUrl(owner, name) ==
    Https \o <<"api.github.com", "/", "repos", "/", owner, "/", name>>

\* https://api.github.com/repos/<owner>/<name>/issues/<number>
ApiIssueUrl(owner, name, number) ==
    ApiRepoUrl(owner, name) \o <<"/", "issues", "/", number>>

\* https://github.com/<owner>/<name>/issues/<number>
HtmlIssueUrl(owner, name, number) ==
    Https \o <<"github.com", "/", owner, "/", name, "/", "issues", "/", number>>

\* An issue as the API returns it.
ApiIssue(owner, name, number) ==
    [url |-> ApiIssueUrl(owner, name, number),
     html_url |-> HtmlIssueUrl(owner, name, number),
     number |-> <<number>>,
     repository_url |-> ApiRepoUrl(owner, name)]

\* dict with one more key
With(d, key, value) ==
    [k \in DOMAIN d \cup {key} |-> IF k = key THEN value ELSE d[k]]

\* dict without a key
Without(d, key) == [k \in DOMAIN d \ {key} |-> d[k]]

PullRequest(issue) == With(issue, "pull_request", issue.html_url)

Issue1 == ApiIssue("alice", "proj", "1")
Issue2 == PullRequest(ApiIssue("alice", "lib", "2"))
Issue3 == ApiIssue("bob", "docs", "3")
\* a payload that names no repository
Issue4 == Without(ApiIssue("bob", "docs", "4"), "repository_url")
\* a payload whose repository_url names another repository than its url
Issue5 == [ApiIssue("alice", "proj", "5") EXCEPT
               !.repository_url = ApiRepoUrl("bob", "docs")]

\* The inputs of get_repository_from_issue: every combination of the three
\* repository fields over a payload.
ResolverInputs ==
    { [k \in DOMAIN base \cup present |->
          IF k \in DOMAIN base THEN base[k]
          ELSE IF k = "repo" THEN r
          ELSE IF k = "repos_url" THEN u1 ELSE u2] :
        base \in {Without(Issue1, "repository_url"), Without(Issue2, "repository_url")},
        present \in SUBSET {"repo", "repos_url", "repository_url"},
        r \in {<<"carol", "/", "app">>, <<"solo">>},
        u1 \in {ApiRepoUrl("alice", "proj"),
                Https \o <<"ghe.example.com", "/", "dave", "/", "tool">>},
        u2 \in {ApiRepoUrl("bob", "docs"), ApiRepoUrl("alice", "proj"),
                Https \o <<"h", "/", "erin", "/">>} }

RepoNames == {<<"proj">>, <<"lib">>, <<"docs">>}

\* Lists of repository names of length at most n, without repetition of the
\* same list twice.
RECURSIVE NameLists(_)
NameLists(n) ==
    IF n = 0 THEN {<<>>}
    ELSE NameLists(n - 1) \cup
         { Append(l, x) : l \in {m \in NameLists(n - 1) : Len(m) = n - 1},
                          x \in RepoNames }

(***************************************************************************)
(* The pure functions applied to drawn inputs.                             *)
(***************************************************************************)
PureInit ==
    /\ \/ pin \in [fn : {"filter_repo_name"},
                   self : [exclude_repos : NameLists(MaxList),
                           include_repos : NameLists(MaxList)],
                   name : RepoNames]
       \/ pin \in [fn : {"get_repository_from_issue"}, issue : ResolverInputs]
    /\ pout = [done |-> FALSE]

PureIdle ==
    /\ pin = [fn |-> "none"]
    /\ pout = [done |-> FALSE]

ApplyFilterRepoName ==
    /\ pin.fn = "filter_repo_name"
    /\ ~pout.done
    /\ pout' = [done |-> TRUE, verdict |-> filter_repo_name(pin.self, pin.name)]
    /\ UNCHANGED pin
    /\ UNCHANGED pureFrame

ApplyGetRepository ==
    /\ pin.fn = "get_repository_from_issue"
    /\ ~pout.done
    /\ pout' = [done |-> TRUE, result |-> get_repository_from_issue(pin.issue)]
    /\ UNCHANGED pin
    /\ UNCHANGED pureFrame

PureNext ==
    \/ ApplyFilterRepoName
    \/ ApplyGetRepository

(***************************************************************************)
(* GithubService.issues() and the strategies it merges.                    *)
(*                                                                         *)
(* A dict is the sequence of its entries in insertion order.  An entry     *)
(* [key, tag, issue] is the item key -> (tag, issue); src is history: the  *)
(* strategy that wrote the entry.                                          *)
(***************************************************************************)
\* d[e.key] = (e.tag, e.issue)
DictSet(d, e) ==
    IF \E i \in 1..Len(d) : d[i].key = e.key
    THEN LET i == CHOOSE i \in 1..Len(d) : d[i].key = e.key
         IN  [d EXCEPT ![i] = e]
    ELSE Append(d, e)

\* d.update(other)
RECURSIVE DictUpdate(_, _)
DictUpdate(d, other) ==
    IF other = <<>> THEN d
    ELSE DictUpdate(DictSet(d, Head(other)), Tail(other))

\* filter(pred, list) for a list of entries, given those that pass
RECURSIVE FilterSeq(_, _)
FilterSeq(list, passing) ==
    IF list = <<>> THEN <<>>
    ELSE (IF Head(list) \in passing THEN <<Head(list)>> ELSE <<>>)
         \o FilterSeq(Tail(list), passing)

\* mutant: a resolution error is not caught
RECURSIVE get_query_uncaught(_)
get_query_uncaught(items) ==
    IF items = <<>> THEN Return(<<>>)
    ELSE LET issue == items[Len(items)]
             before == get_query_uncaught(SubSeq(items, 1, Len(items) - 1))
             repo == get_repository_from_issue(issue)
         IN  IF before.raised THEN before
             ELSE IF repo.raised THEN Raise("ValueError")
             ELSE Return(DictSet(before.value,
                     [key |-> issue.html_url, tag |-> repo.value,
                      issue |-> issue, src |-> "query"]))

\* GithubService.get_query over what client.get_query returned
RECURSIVE get_query(_)
get_query(items) ==
    IF items = <<>> THEN Return(<<>>)
    ELSE LET issue == items[Len(items)]
             before == get_query(SubSeq(items, 1, Len(items) - 1))
             repo == get_repository_from_issue(issue)
         IN  IF repo.raised THEN before
             ELSE Return(DictSet(before.value,
                     [key |-> issue.html_url, tag |-> repo.value,
                      issue |-> issue, src |-> "query"]))

\* GithubService.get_owned_repo_issues over what client.get_issues returned
RECURSIVE get_owned_repo_issues(_, _)
get_owned_repo_issues(tag, items) ==
    IF items = <<>> THEN <<>>
    ELSE LET issue == items[Len(items)]
         IN  DictSet(get_owned_repo_issues(tag, SubSeq(items, 1, Len(items) - 1)),
                     [key |-> issue.url, tag |-> tag, issue |-> issue,
                      src |-> "owned"])

\* GithubService.get_directly_assigned_issues over what the client returned
RECURSIVE get_directly_assigned_issues(_)
get_directly_assigned_issues(items) ==
    IF items = <<>> THEN Return(<<>>)
    ELSE LET issue == items[Len(items)]
             before == get_directly_assigned_issues(SubSeq(items, 1, Len(items) - 1))
             repos_ == get_repository_from_issue(issue)
         IN  IF before.raised THEN before
             ELSE IF repos_.raised THEN repos_
             ELSE Return(DictSet(before.value,
                     [key |-> issue.url, tag |-> repos_.value,
                      issue |-> issue, src |-> "direct"]))

\* An entry as dict.items() hands it over: (key, (tag, issue)).
Item(e) == <<e.key, <<e.tag, e.issue>>>>

\* GithubService.filter_issues: repo, _ = issue; repo.split('/')[-3]
filter_issues(self, item) ==
    LET repo == item[1]
        segs == Split(repo, Slash)
    IN  IF Len(segs) < 3 THEN Raise("IndexError")
        ELSE [raised |-> FALSE, exc |-> "",
              value |-> filter_repo_name(self, segs[Len(segs) - 2])]

\* IssueService.include, the base class's inclusion policy: it is outside
\* this file, and turns down the issues whose numbers are in rejects.
BaseInclude(rejects, issue) == issue[2].number \notin rejects

\* mutant: a pull request is always included
include_every_pull(self, issue, rejects) ==
    IF "pull_request" \in DOMAIN issue[2] THEN TRUE
    ELSE BaseInclude(rejects, issue)

\* GithubService.include
include(self, issue, rejects) ==
    IF "pull_request" \in DOMAIN issue[2] /\ ~self.filter_pull_requests THEN TRUE
    ELSE BaseInclude(rejects, issue)

(***************************************************************************)
(* What the remote API returns to the client calls of issues().            *)
(***************************************************************************)
\* The sequences over S of length at most n
RECURSIVE SeqsUpTo(_, _)
SeqsUpTo(S, n) ==
    IF n = 0 THEN {<<>>}
    ELSE SeqsUpTo(S, n - 1) \cup
         { Append(l, x) : l \in {m \in SeqsUpTo(S, n - 1) : Len(m) = n - 1}, x \in S }

\* GitHub's own payloads name their repository, and their url is
\* <repository_url>/issues/<number>; another server's may not.
GithubSearchResults == SeqsUpTo({Issue1, Issue2}, MaxFetch)
AnySearchResults == SeqsUpTo({Issue1, Issue2, Issue4}, MaxFetch)

\* client.get_query(query)
SearchResults(api) ==
    IF api = "github" THEN GithubSearchResults ELSE AnySearchResults

GithubDirectResults == SeqsUpTo({Issue1, Issue3}, MaxFetch)
AnyDirectResults == SeqsUpTo({Issue1, Issue3, Issue4, Issue5}, MaxFetch)

\* client.get_directly_assigned_issues()
DirectResults(api) ==
    IF api = "github" THEN GithubDirectResults ELSE AnyDirectResults

Repo(owner, name) == [owner |-> [login |-> owner], name |-> name]

\* client.get_repos: the user's repositories, then the username's public ones
RepoResults ==
    { <<>>,
      <<Repo(<<"alice">>, <<"proj">>)>>,
      <<Repo(<<"alice">>, <<"proj">>), Repo(<<"alice">>, <<"lib">>)>>,
      <<Repo(<<"org">>, <<"docs">>), Repo(<<"alice">>, <<"lib">>)>>,
      <<Repo(<<"alice">>, <<"proj">>), Repo(<<"alice">>, <<"proj">>)>> }

\* client.get_issues(username, repo)
RepoIssueResults(api, name) ==
    IF name = <<"proj">>
    THEN {<<>>, <<Issue1>>} \cup (IF api = "github" THEN {} ELSE {<<Issue5, Issue1>>})
    ELSE IF name = <<"lib">> THEN {<<>>, <<Issue2>>}
    ELSE {<<>>}

Services ==
    [username : {<<"alice">>},
     exclude_repos : {<<>>, << <<"proj">> >>, << <<"docs">> >>},
     include_repos : {<<>>, << <<"proj">> >>},
     filter_pull_requests : BOOLEAN,
     query : {<<>>, <<"is:open">>},
     include_user_repos : BOOLEAN,
     include_user_issues : BOOLEAN]

\* What the base class's include() may turn down.
BaseRejects == SUBSET {<<"1">>, <<"2">>}

NoFetch == [op |-> "none", items |-> <<>>]

IssuesInit ==
    /\ svc \in Services
    /\ remote \in {"github", "any"}
    /\ fetched = NoFetch
    /\ issues = <<>>
    /\ repos = <<>>
    /\ records = <<>>
    /\ base_rejects = {}
    /\ ipc = "query"
    /\ error = ""

IssuesIdle ==
    /\ svc = [username |-> <<>>]
    /\ remote = "any"
    /\ fetched = NoFetch
    /\ issues = <<>>
    /\ repos = <<>>
    /\ records = <<>>
    /\ base_rejects = {}
    /\ ipc = "idle"
    /\ error = ""

\* if self.query: issues.update(self.get_query(self.query))
IssuesQuery ==
    /\ ipc = "query"
    /\ IF svc.query # <<>>
       THEN \E items \in SearchResults(remote) :
               LET q == get_query(items)
               IN  /\ fetched' = [op |-> "query", items |-> items]
                   /\ IF q.raised
                      THEN /\ ipc' = "raised"
                           /\ error' = q.exc
                           /\ UNCHANGED issues
                      ELSE /\ issues' = DictUpdate(issues, q.value)
                           /\ ipc' = "repos"
                           /\ UNCHANGED error
       ELSE /\ ipc' = "repos"
            /\ UNCHANGED <<fetched, issues, error>>
    /\ UNCHANGED <<svc, repos, records>>
    /\ UNCHANGED <<remote, base_rejects, issuesFrame>>

\* if include_user_repos: all_repos = client.get_repos(username);
\* repos = filter(self.filter_repos, all_repos)
IssuesRepos ==
    /\ ipc = "repos"
    /\ IF svc.include_user_repos
       THEN \E all_repos \in RepoResults :
               /\ fetched' = [op |-> "repos", items |-> all_repos]
               /\ repos' = FilterSeq(all_repos,
                     {r \in {all_repos[i] : i \in 1..Len(all_repos)} :
                         filter_repos(svc, r)})
               /\ ipc' = "owned"
       ELSE /\ ipc' = "direct"
            /\ UNCHANGED <<fetched, repos>>
    /\ UNCHANGED <<svc, issues, records, error>>
    /\ UNCHANGED <<remote, base_rejects, issuesFrame>>

\* for repo in repos: issues.update(self.get_owned_repo_issues(username/name))
IssuesOwned ==
    /\ ipc = "owned"
    /\ repos # <<>>
    /\ LET tag == svc.username \o Slash \o Head(repos).name
       IN  \E items \in RepoIssueResults(remote, Head(repos).name) :
              /\ fetched' = [op |-> "owned", items |-> items]
              /\ issues' = DictUpdate(issues, get_owned_repo_issues(tag, items))
    /\ repos' = Tail(repos)
    /\ UNCHANGED <<svc, records, ipc, error>>
    /\ UNCHANGED <<remote, base_rejects, issuesFrame>>

\* the loop over repos is over
IssuesOwnedDone ==
    /\ ipc = "owned"
    /\ repos = <<>>
    /\ ipc' = "direct"
    /\ UNCHANGED <<svc, fetched, issues, repos, records, error>>
    /\ UNCHANGED <<remote, base_rejects, issuesFrame>>

\* if include_user_issues: issues.update(filter(self.filter_issues,
\*     self.get_directly_assigned_issues().items()))
IssuesDirect ==
    /\ ipc = "direct"
    /\ IF svc.include_user_issues
       THEN \E items \in DirectResults(remote) :
               LET d == get_directly_assigned_issues(items)
                   verdicts == [i \in 1..Len(d.value) |->
                                   filter_issues(svc, Item(d.value[i]))]
                   bad == IF d.raised THEN {}
                          ELSE {i \in 1..Len(d.value) : verdicts[i].raised}
               IN  /\ fetched' = [op |-> "direct", items |-> items]
                   /\ IF d.raised
                      THEN /\ ipc' = "raised"
                           /\ error' = d.exc
                           /\ UNCHANGED issues
                      ELSE IF bad # {}
                      THEN /\ ipc' = "raised"
                           /\ error' = verdicts[Min(bad)].exc
                           /\ UNCHANGED issues
                      ELSE /\ issues' = DictUpdate(issues,
                                FilterSeq(d.value,
                                    {d.value[i] : i \in {j \in 1..Len(d.value) :
                                                            verdicts[j].value}}))
                           /\ ipc' = "include"
                           /\ UNCHANGED error
       ELSE /\ ipc' = "include"
            /\ UNCHANGED <<fetched, issues, error>>
    /\ UNCHANGED <<svc, repos, records>>
    /\ UNCHANGED <<remote, base_rejects, issuesFrame>>

\* a client call fails: the exception of _getter ends issues()
IssuesTransportError ==
    /\ \/ ipc = "query" /\ svc.query # <<>>
       \/ ipc = "repos" /\ svc.include_user_repos
       \/ ipc = "owned" /\ repos # <<>>
       \/ ipc = "direct" /\ svc.include_user_issues
    /\ ipc' = "raised"
    /\ error' = "IOError"
    /\ UNCHANGED <<svc, fetched, issues, repos, records>>
    /\ UNCHANGED <<remote, base_rejects, issuesFrame>>

\* issues = list(filter(self.include, issues.values()))
IssuesInclude ==
    /\ ipc = "include"
    /\ \E rejects \in BaseRejects :
          /\ base_rejects' = rejects
          /\ issues' = FilterSeq(issues,
                {e \in {issues[i] : i \in 1..Len(issues)} :
                    include(svc, <<e.tag, e.issue>>, rejects)})
    /\ fetched' = NoFetch
    /\ ipc' = "yield"
    /\ UNCHANGED <<svc, repos, records, error>>
    /\ UNCHANGED <<remote, issuesFrame>>

\* for tag, issue in issues: issue['repo'] = tag; ...; yield issue_obj
IssuesYield ==
    /\ ipc = "yield"
    /\ Len(records) < Len(issues)
    /\ LET e == issues[Len(records) + 1]
           segs == Split(e.tag, Slash)
       IN  IF Len(segs) < 2
           THEN /\ ipc' = "raised"
                /\ error' = "IndexError"
                /\ UNCHANGED records
           ELSE /\ records' = Append(records,
                      [record |-> With(e.issue, "repo", e.tag),
                       project |-> segs[2],
                       type |-> IF "pull_request" \in DOMAIN e.issue
                                THEN "pull_request" ELSE "issue",
                       src |-> e.src])
                /\ UNCHANGED <<ipc, error>>
    /\ UNCHANGED <<svc, fetched, issues, repos>>
    /\ UNCHANGED <<remote, base_rejects, issuesFrame>>

\* the generator is exhausted
IssuesDone ==
    /\ ipc = "yield"
    /\ Len(records) = Len(issues)
    /\ ipc' = "done"
    /\ UNCHANGED <<svc, fetched, issues, repos, records, error>>
    /\ UNCHANGED <<remote, base_rejects, issuesFrame>>

IssuesNext ==
    \/ IssuesQuery
    \/ IssuesRepos
    \/ IssuesOwned
    \/ IssuesOwnedDone
    \/ IssuesDirect
    \/ IssuesTransportError
    \/ IssuesInclude
    \/ IssuesYield
    \/ IssuesDone

(***************************************************************************)
(* The specifications.                                                     *)
(***************************************************************************)
\* GithubService.issues() against any server speaking GitHub's protocol
Init == GetterIdle /\ ConfigIdle /\ PureIdle /\ IssuesInit /\ remote = "any"
Next == IssuesNext
Spec == Init /\ [][Next]_vars

\* GithubService.issues() against GitHub itself
InitGithub == GetterIdle /\ ConfigIdle /\ PureIdle /\ IssuesInit /\ remote = "github"
SpecGithub == InitGithub /\ [][Next]_vars

\* GithubClient._getter
InitGetter == GetterInit /\ ConfigIdle /\ PureIdle /\ IssuesIdle
NextGetter == GetterNext
SpecGetter == InitGetter /\ [][NextGetter]_vars

\* GithubService.validate_config and __init__
InitConfig == GetterIdle /\ ConfigInit /\ PureIdle /\ IssuesIdle
NextConfig == ConfigNext
SpecConfig == InitConfig /\ [][NextConfig]_vars

\* filter_repo_name and get_repository_from_issue on drawn inputs
InitPure == GetterIdle /\ ConfigIdle /\ PureInit /\ IssuesIdle
NextPure == PureNext
SpecPure == InitPure /\ [][NextPure]_vars

(***************************************************************************)
(* Properties of GithubClient._getter (SpecGetter).                        *)
(***************************************************************************)
Range(list) == {list[i] : i \in 1..Len(list)}

NoRepeats(list) == \A i, j \in 1..Len(list) : i # j => list[i] # list[j]

\* The items of pages 1..k of the server, in page order.
RECURSIVE ItemsUpTo(_)
ItemsUpTo(k) == IF k = 0 THEN <<>> ELSE ItemsUpTo(k - 1) \o server[k].items

FaultyPages == {k \in 1..Len(server) : server[k].fault # "ok"}

\* C2: over N pages of which all but the last advertise "next", _getter
\* issues exactly N requests, for pages 1..N in this order, requests a page
\* only once the Link header of the page before it has been parsed, and
\* returns the concatenation of the N pages' items in page order.
C2_Pagination ==
    (gpc # "idle" /\ FaultyPages = {}) =>
        /\ Len(requests) <= parsed + 1
        /\ \A k \in 1..Len(requests) : requests[k] = PageUrl(k)
        /\ gout.kind # "exception"
        /\ gout.kind = "value" =>
              /\ Len(requests) = Len(server)
              /\ parsed = Len(server)
              /\ gout.value = ItemsUpTo(Len(server))

\* C2's case: a fetch over several pages, with a subkey, has returned items
C2_Witness ==
    /\ gout.kind = "value"
    /\ Len(server) >= 3
    /\ subkey = "items"
    /\ Len(gout.value) >= 3
    /\ \E k \in 1..Len(server) : Len(Split(server[k].header, <<",", " ">>)) = 3

\* C3: when a page request fails, the fetch ends in an error and returns no
\* items, not even those of the pages already fetched; it issues no request
\* after the failed one and requests no URL twice.
C3_FailFast ==
    \A f \in FaultyPages :
        /\ Len(requests) <= f
        /\ NoRepeats(requests)
        /\ gout.kind # "value"
        /\ gout.value = <<>>
        /\ gpc \in {"raised", "done"} =>
              /\ gpc = "raised"
              /\ gout.kind = "exception"
              /\ Len(requests) = f

\* C3's case: the third page fails after two pages with items were fetched
C3_Witness ==
    /\ gpc = "raised"
    /\ Len(requests) >= 3
    /\ Len(results) >= 2
    /\ gout.kind = "exception"

(***************************************************************************)
(* Properties of validate_config and __init__ (SpecConfig).                *)
(***************************************************************************)
Validated == cpc \notin {"idle", "validate"}

\* C5 as claimed: a fatal error unless login, username and exactly one of
\* token / password are supplied.
C5_ExactlyOne ==
    Validated =>
        (~(config.login /\ config.username /\ (config.token # config.password))
            => cpc \in {"died", "base_died"})

\* C5, amended: validate_config's own checks end in a fatal error exactly
\* when login is missing, username is missing, or neither token nor password
\* is supplied; a configuration with both token and password passes them,
\* and __init__ then authenticates with the token alone.
C5_AtLeastOne ==
    /\ Validated =>
          (cpc = "died" <=>
              ~(config.login /\ config.username /\ (config.token \/ config.password)))
    /\ cpc = "constructed" =>
          /\ DOMAIN auth = (IF config.token THEN {"token"} ELSE {"basic"})
          /\ config.token \/ config.password

\* C5's case: a configuration with both token and password was accepted
C5_Witness ==
    /\ cpc = "constructed"
    /\ config.token /\ config.password
    /\ DOMAIN auth = {"token"}

(***************************************************************************)
(* Properties of the pure functions (SpecPure).                            *)
(***************************************************************************)
\* C4: filter_repo_name rejects a name of exclude_repos; otherwise, with a
\* non-empty include_repos, it accepts exactly the names of include_repos;
\* otherwise it accepts.
C4_FilterRepoName ==
    (pin.fn = "filter_repo_name" /\ pout.done) =>
        LET excluded == Range(pin.self.exclude_repos)
            included == Range(pin.self.include_repos)
        IN  pout.verdict =
                CASE pin.name \in excluded -> FALSE
                  [] included # {} -> pin.name \in included
                  [] OTHER -> TRUE

\* C4's case: a name in both lists was rejected
C4_Witness ==
    /\ pin.fn = "filter_repo_name"
    /\ pout.done
    /\ pin.name \in Range(pin.self.exclude_repos)
    /\ pin.name \in Range(pin.self.include_repos)
    /\ ~pout.verdict

\* The last two '/'-delimited segments of a URL, as "owner/name".
LastTwoSegments(url) ==
    LET segs == Split(url, Slash)
    IN  segs[Len(segs) - 1] \o Slash \o segs[Len(segs)]

\* C9: get_repository_from_issue returns repo verbatim when present, else
\* the trailing owner/name of repos_url when present, else that of
\* repository_url, and fails when none of the three is present.
C9_Precedence ==
    (pin.fn = "get_repository_from_issue" /\ pout.done) =>
        LET issue == pin.issue
            r == pout.result
        IN  CASE "repo" \in DOMAIN issue ->
                    ~r.raised /\ r.value = issue.repo
              [] "repo" \notin DOMAIN issue /\ "repos_url" \in DOMAIN issue ->
                    ~r.raised /\ r.value = LastTwoSegments(issue.repos_url)
              [] {"repo", "repos_url"} \cap DOMAIN issue = {}
                    /\ "repository_url" \in DOMAIN issue ->
                    ~r.raised /\ r.value = LastTwoSegments(issue.repository_url)
              [] OTHER -> r.raised /\ r.exc = "ValueError"

\* C9's case: repos_url won over a repository_url naming another repository
C9_Witness ==
    /\ pin.fn = "get_repository_from_issue"
    /\ pout.done
    /\ {"repos_url", "repository_url"} \subseteq DOMAIN pin.issue
    /\ "repo" \notin DOMAIN pin.issue
    /\ LastTwoSegments(pin.issue.repos_url) # LastTwoSegments(pin.issue.repository_url)
    /\ pout.result.value = LastTwoSegments(pin.issue.repos_url)

(***************************************************************************)
(* Properties of GithubService.issues() (Spec).                            *)
(***************************************************************************)
\* C1: the records issues() yields have pairwise distinct html_url values.
C1_DistinctUrls ==
    \A i, j \in 1..Len(records) :
        i # j => records[i].record.html_url # records[j].record.html_url

\* What the claimed pull-request policy decides for an aggregated entry.
PolicyIncludes(e, rejects) ==
    LET base == e.issue.number \notin rejects
    IN  CASE "pull_request" \in DOMAIN e.issue /\ ~svc.filter_pull_requests -> TRUE
          [] "pull_request" \in DOMAIN e.issue /\ svc.filter_pull_requests -> base
          [] OTHER -> base

\* C6: with filter_pull_requests false every aggregated pull request is kept
\* whatever the base policy decides; with it true a pull request is kept
\* exactly when the base policy accepts it; any other item is decided by the
\* base policy.  What is kept is what issues() yields.
C6_PullRequestPolicy ==
    /\ [][ipc = "include" =>
             \A i \in 1..Len(issues) :
                 (issues[i] \in Range(issues')) <=>
                     PolicyIncludes(issues[i], base_rejects')]_vars
    /\ [](ipc = "done" =>
             /\ Len(records) = Len(issues)
             /\ \A i \in 1..Len(issues) :
                   Without(records[i].record, "repo") = Without(issues[i].issue, "repo"))

\* C6's case: a pull request the base policy rejects was yielded, and an
\* issue the base policy rejects was not
C6_Witness ==
    /\ ipc = "done"
    /\ ~svc.filter_pull_requests
    /\ <<"1">> \in base_rejects
    /\ \E i \in 1..Len(records) :
          /\ records[i].type = "pull_request"
          /\ records[i].record.number \in base_rejects
    /\ \A i \in 1..Len(records) : records[i].record.number # <<"1">>

\* A payload that carries one of the fields a repo tag is derived from.
Resolvable(issue) == {"repo", "repos_url", "repository_url"} \cap DOMAIN issue # {}

\* C7: a search result whose repo tag cannot be resolved is dropped without
\* raising: get_query keeps an entry for every search result that resolves,
\* none for the others, and issues() goes on to the next strategy.
C7_QueryDropsUnresolved ==
    [][(ipc = "query" /\ svc.query # <<>>) =>
          \/ error' = "IOError"
          \/ /\ ipc' = "repos"
             /\ error' = ""
             /\ \A i \in 1..Len(fetched'.items) :
                   LET issue == fetched'.items[i]
                   IN  IF Resolvable(issue)
                       THEN \E e \in Range(issues') :
                               /\ e.key = issue.html_url
                               /\ e.issue = issue
                               /\ e.tag = LastTwoSegments(issue.repository_url)
                       ELSE \A e \in Range(issues') : e.issue # issue]_vars

\* C7's case: the query returned an unresolvable result before a resolvable
\* one, and the resolvable one alone was kept
C7_Witness ==
    /\ fetched.op = "query"
    /\ ipc = "repos"
    /\ fetched.items = <<Issue4, Issue1>>
    /\ Len(issues) = 1
    /\ issues[1].issue = Issue1

RepoName(r) == Split(r.record.repo, Slash)[2]

\* What the repository lists admit.
Admitted(name) ==
    /\ name \notin Range(svc.exclude_repos)
    /\ svc.include_repos # <<>> => name \in Range(svc.include_repos)

\* C10 as claimed: no yielded record belongs to a repository of exclude_repos
\* and, with a non-empty include_repos, every yielded record belongs to one
\* of its repositories, whichever strategy contributed it.
C10_AllStrategiesFiltered ==
    \A i \in 1..Len(records) : Admitted(RepoName(records[i]))

\* C10, amended: the repository lists bind the owned-repo strategy, whose
\* records belong to an admitted repository, and the directly-assigned
\* strategy, whose records have an issue url with an admitted third-from-last
\* segment; the records of the search query are not filtered by them.
C10_OwnedAndDirectFiltered ==
    \A i \in 1..Len(records) :
        LET r == records[i]
            segs == Split(r.record.url, Slash)
        IN  /\ r.src = "owned" => Admitted(RepoName(r))
            /\ r.src = "direct" => Admitted(segs[Len(segs) - 2])

\* C10's case: with a non-empty exclude_repos, the owned-repo and the
\* directly-assigned strategies contributed records, and the search query
\* contributed one of an excluded repository
C10_Witness ==
    /\ ipc = "done"
    /\ svc.exclude_repos # <<>>
    /\ \E i \in 1..Len(records) : records[i].src = "owned"
    /\ \E i \in 1..Len(records) : records[i].src = "direct"
    /\ \E i \in 1..Len(records) :
          /\ records[i].src = "query"
          /\ RepoName(records[i]) \in Range(svc.exclude_repos)

====
